---- MODULE Spec2Model ----
(***************************************************************************)
(* State-machine model of kernel/sched/cpufreq_schedutil.c (the schedutil  *)
(* cpufreq governor with the exynos slack-timer and PM QoS additions).     *)
(*                                                                         *)
(* One frequency domain (struct cpufreq_policy / struct sugov_policy) is   *)
(* modelled, with one or two member CPUs.  Frequencies are in MHz and      *)
(* `unsigned int' is modelled 16 bits wide, so UINT_MAX is 65535; times    *)
(* are in nanoseconds as in the source.                                    *)
(***************************************************************************)
EXTENDS Integers, Sequences, FiniteSets, TLC

VARIABLES
    clock,          \* index of the current instant in TimePoints
    idle_calls,     \* tick_nohz_get_idle_calls() of the single-policy CPU
    gov,            \* position of the cpufreq core in start/stop/limits
    policy,         \* struct cpufreq_policy: cur, min, max, fast switch, cpus
    tunables,       \* struct sugov_tunables
    sg_policy,      \* struct sugov_policy
    sugov_cpu,      \* per-CPU struct sugov_cpu
    sugov_exynos,   \* per-CPU struct sugov_exynos
    irq_work,       \* sg_policy->irq_work is queued
    work,           \* sg_policy->work and the kworker running sugov_work
    work_lock,      \* owner of sg_policy->work_lock
    lim,            \* hardware call of sugov_limits in progress
    qos,            \* sugov_pm_qos_callback in progress
    last            \* record of what the last handler did (observation only)

vars == <<clock, idle_calls, gov, policy, tunables, sg_policy, sugov_cpu,
          sugov_exynos, irq_work, work, work_lock, lim, qos, last>>

----------------------------------------------------------------------------
(* Bounds of the model *)

\* number of clock advances explored by the specification of the sampling
\* path (the instants are TimePoints[1..MaxTick+1])
MaxTick == 2

\* number of clock advances explored by the specification of the whole
\* governor
MaxTickAll == 1

\* cap on the idle-call counter of a CPU
MaxIdleCalls == 1

\* number of clock advances explored by the specification of the shared
\* aggregation (the instants are TimePoints[SharedBase+1..SharedBase+1+MaxTickShared])
MaxTickShared == 2

\* number of consecutive samples over which the decay of the iowait boost is
\* followed
MaxDecay == 3

----------------------------------------------------------------------------
(* Program constants *)

UINT_MAX == 65535

ULONG_MAX == 2147483647

NSEC_PER_USEC == 1000

USEC_PER_MSEC == 1000

NSEC_PER_MSEC == 1000000

TICK_NSEC == 4000000

CPUFREQ_ENTRY_INVALID == 65535

DEFAULT_EXPIRED_TIME == 70

\* capacity of the CPUs of the domain, as arch_scale_cpu_capacity() gives it
arch_scale_cpu_capacity == 1024

\* the CPUs of the platform that belong to the modelled domain
CPUS == {0, 1}

\* frequency table of the domain (MHz); cpuinfo.max_freq is its top entry
FreqTable == {500, 1000, 2000}

cpuinfo_max_freq == 2000

\* rq clock instants at which handlers run (ns): 100 ms after boot, then
\* 1000 us, 2001 us, 22001 us, 23001 us, 24002 us, 44002 us later; and a
\* later stretch of the run, 200 ms after boot, then 20 us, 4020 us (one
\* tick after the second instant) and 8021 us later
TimePoints ==
    <<100000000, 101000000, 102001000, 122001000, 123001000, 124002000,
      144002000, 200000000, 200020000, 204020000, 208021000>>

\* index of the clock at which the later stretch begins
SharedBase == 7

time == TimePoints[clock + 1]

\* utilization values the scheduler reports (capacity is 1024)
Utils == {0, 400}

FlagSets == {{}, {"DL"}}

\* utilization values and request flags of the samples of a two-CPU domain
UtilsShared == {200, 800}

FlagSetsShared == {{}, {"DL"}}

\* request flags of the samples of a CPU that waits on I/O
FlagSetsBoost == {{}, {"IOWAIT"}}

\* results of sugov_select_scaling_cpu(): a CPU of the boot cluster, or -1
ScalingCpus == {-1, 0}

\* (up_rate_limit_us, down_rate_limit_us) configurations of the tunables
RateLimits == {<<2000, 20000>>, <<2000, 1000>>}

\* values written to up_rate_limit_us / down_rate_limit_us through sysfs, and
\* millisecond arguments of sugov_update_rate_limit_us
RateLimitUs == {1000, 2000}

RateLimitMs == {1, 2}

\* (min, max) pairs the cpufreq core may set before calling ->limits()
PolicyLimits == {<<500, 2000>>, <<1000, 1000>>}

\* PM QoS classes the notifier is registered on, and the class of each CPU
QosClasses == {"PM_QOS_CLUSTER0_FREQ_MIN", "PM_QOS_CLUSTER1_FREQ_MIN"}

qos_min_class(cpu) == "PM_QOS_CLUSTER0_FREQ_MIN"

QosVals == {500, 1000}

\* CPU PM notifications of a CPU on its way into and out of deep idle
PmActions == {"CPU_PM_ENTER_PREPARE", "CPU_PM_ENTER", "CPU_PM_EXIT_POST"}

\* values of tick_nohz_get_sleep_length() (ns): 1 ms and 100 ms
SleepLengths == {1000000, 100000000}

\* values of schedtune_cpu_boost()
BoostVals == {0, 10}

Min(a, b) == IF a < b THEN a ELSE b

Max(a, b) == IF a > b THEN a ELSE b

\* observation record, written by a sample that passed the should-update
\* gate, by a handler entering a blocking hardware call, by the worker's
\* last step and by the PM QoS callback, cleared by every other step.  op names the handler, outcome the way it returned; for a
\* sample prev and delta are the committed target and the time since the last
\* commit as the up/down gate saw them and target is the computed frequency;
\* hit tells that get_next_freq returned the cached target.  For the PM QoS
\* callback outcome is its return value and, when it makes its call, prev is
\* policy->cur and target the new floor.  arg is the frequency a blocking
\* hardware call was entered with (-1: no call).  locks is the set of locks
\* of the group the handler held while it wrote the sugov_policy
NoEvent ==
    [op |-> "none", prev |-> 0, delta |-> 0, target |-> 0, hit |-> FALSE,
     outcome |-> "none", arg |-> -1, locks |-> {}]

----------------------------------------------------------------------------
(* Hardware driver boundary *)

\* lowest table frequency >= target (CPUFREQ_RELATION_L), after clamping the
\* target to the policy limits
cpufreq_driver_resolve_freq(pol, target_freq) ==
    LET t == Min(Max(target_freq, pol.min), pol.max)
        ge == {f \in FreqTable : f >= t}
    IN  IF ge # {}
        THEN CHOOSE f \in ge : \A g \in ge : f <= g
        ELSE CHOOSE f \in FreqTable : \A g \in FreqTable : f >= g

\* fast switch is stubbed out: #define cpufreq_driver_fast_switch(x, y) 0
cpufreq_driver_fast_switch(pol, target_freq) == 0

\* the blocking hardware-set call __cpufreq_driver_target(): on success the
\* domain runs at the resolved frequency, on error it keeps its frequency.
\* The change of policy->cur is taken to happen as the call is entered; the
\* caller stays in the call until a later step.
cpufreq_driver_target(pol, target_freq, ok) ==
    IF ok THEN [pol EXCEPT !.cur = cpufreq_driver_resolve_freq(pol, target_freq)]
    ELSE pol

arch_scale_freq_invariant == TRUE

----------------------------------------------------------------------------
(* Governor internals *)

\* sugov_should_update_freq without its work_in_progress test
sugov_should_update_freq_nocheck(sg, t) ==
    IF sg.need_freq_update
    THEN [ret |-> TRUE,
          sg |-> [sg EXCEPT !.need_freq_update = FALSE, !.next_freq = UINT_MAX]]
    ELSE [ret |-> (t - sg.last_freq_update_time) >= sg.min_rate_limit_ns,
          sg |-> sg]

\* sugov_should_update_freq without its min_rate_limit_ns test
sugov_should_update_freq_norate(sg, t) ==
    IF sg.work_in_progress
    THEN [ret |-> FALSE, sg |-> sg]
    ELSE [ret |-> TRUE,
          sg |-> IF sg.need_freq_update
                 THEN [sg EXCEPT !.need_freq_update = FALSE,
                                 !.next_freq = UINT_MAX]
                 ELSE sg]

\* sugov_should_update_freq that tests need_freq_update before
\* work_in_progress
sugov_should_update_freq_needfirst(sg, t) ==
    IF sg.need_freq_update
    THEN [ret |-> TRUE,
          sg |-> [sg EXCEPT !.need_freq_update = FALSE, !.next_freq = UINT_MAX]]
    ELSE IF sg.work_in_progress
    THEN [ret |-> FALSE, sg |-> sg]
    ELSE [ret |-> (t - sg.last_freq_update_time) >= sg.min_rate_limit_ns,
          sg |-> sg]

sugov_should_update_freq(sg, t) ==
    IF sg.work_in_progress
    THEN [ret |-> FALSE, sg |-> sg]
    ELSE IF sg.need_freq_update
    THEN [ret |-> TRUE,
          sg |-> [sg EXCEPT !.need_freq_update = FALSE, !.next_freq = UINT_MAX]]
    ELSE [ret |-> (t - sg.last_freq_update_time) >= sg.min_rate_limit_ns,
          sg |-> sg]

\* sugov_up_down_rate_limit that never limits
sugov_up_down_rate_limit_off(sg, t, next_freq) == FALSE

sugov_up_down_rate_limit(sg, t, next_freq) ==
    LET delta_ns == t - sg.last_freq_update_time
    IN  \/ (next_freq > sg.next_freq /\ delta_ns < sg.up_rate_delay_ns)
        \/ (next_freq < sg.next_freq /\ delta_ns < sg.down_rate_delay_ns)

\* result: the new sugov_policy, the new policy->cur, whether the irq work
\* was queued, and which way the function returned
sugov_update_commit(sg, pol, t, next_freq, scaling_cpu) ==
    IF sugov_up_down_rate_limit(sg, t, next_freq)
    THEN [sg |-> [sg EXCEPT !.cached_raw_freq = 0], cur |-> pol.cur,
          queue |-> FALSE, outcome |-> "blocked"]
    ELSE IF sg.next_freq = next_freq
    THEN [sg |-> sg, cur |-> pol.cur, queue |-> FALSE, outcome |-> "same"]
    ELSE LET sg1 == [sg EXCEPT !.next_freq = next_freq,
                               !.last_freq_update_time = t]
             fast == cpufreq_driver_fast_switch(pol, next_freq)
         IN  IF pol.fast_switch_enabled
             THEN IF fast = CPUFREQ_ENTRY_INVALID
                  THEN [sg |-> sg1, cur |-> pol.cur, queue |-> FALSE,
                        outcome |-> "rejected"]
                  ELSE [sg |-> sg1, cur |-> fast, queue |-> FALSE,
                        outcome |-> "fast"]
             ELSE IF scaling_cpu < 0
                  THEN [sg |-> sg1, cur |-> pol.cur, queue |-> FALSE,
                        outcome |-> "nocpu"]
                  ELSE [sg |-> [sg1 EXCEPT !.work_in_progress = TRUE],
                        cur |-> pol.cur, queue |-> TRUE,
                        outcome |-> "deferred"]

freqvar_tipping_point(freq) == freq + (freq \div 4)

\* get_next_freq whose cache test forgets next_freq != UINT_MAX
get_next_freq_stale(sg, pol, util, max) ==
    LET ref == IF arch_scale_freq_invariant THEN pol.max ELSE pol.cur
        freq == ((freqvar_tipping_point(ref) * util) \div max) % (UINT_MAX + 1)
    IN  IF freq = sg.cached_raw_freq
        THEN [freq |-> sg.next_freq, sg |-> sg, hit |-> TRUE]
        ELSE [freq |-> cpufreq_driver_resolve_freq(pol, freq),
              sg |-> [sg EXCEPT !.cached_raw_freq = freq], hit |-> FALSE]

get_next_freq(sg, pol, util, max) ==
    LET ref == IF arch_scale_freq_invariant THEN pol.max ELSE pol.cur
        freq == ((freqvar_tipping_point(ref) * util) \div max) % (UINT_MAX + 1)
    IN  IF freq = sg.cached_raw_freq /\ sg.next_freq # UINT_MAX
        THEN [freq |-> sg.next_freq, sg |-> sg, hit |-> TRUE]
        ELSE [freq |-> cpufreq_driver_resolve_freq(pol, freq),
              sg |-> [sg EXCEPT !.cached_raw_freq = freq], hit |-> FALSE]

\* util is what boosted_cpu_util()/util_est yield for the CPU
sugov_get_util(util) ==
    [util |-> Min(util, arch_scale_cpu_capacity), max |-> arch_scale_cpu_capacity]

sugov_set_iowait_boost(c, t, flags) ==
    LET c1 == IF "IOWAIT" \in flags
              THEN [c EXCEPT !.iowait_boost = c.iowait_boost_max]
              ELSE IF c.iowait_boost # 0 /\ (t - c.last_update) > TICK_NSEC
              THEN [c EXCEPT !.iowait_boost = 0]
              ELSE c
    IN  \* HACK: block iowait boost
        [c1 EXCEPT !.iowait_boost = 0]

sugov_iowait_boost(c, util, max) ==
    IF c.iowait_boost = 0
    THEN [cpu |-> c, util |-> util, max |-> max]
    ELSE LET sub == util * c.iowait_boost_max < max * c.iowait_boost
         IN  [cpu |-> [c EXCEPT !.iowait_boost = c.iowait_boost \div 2],
              util |-> IF sub THEN c.iowait_boost ELSE util,
              max |-> IF sub THEN c.iowait_boost_max ELSE max]

sugov_cpu_is_busy(c, calls) ==
    [ret |-> (calls = c.saved_idle_calls),
     cpu |-> [c EXCEPT !.saved_idle_calls = calls]]

\* the online CPUs of a mask, in ascending order (for_each_cpu_and)
RECURSIVE cpu_seq(_)
cpu_seq(S) ==
    IF S = {} THEN <<>>
    ELSE LET m == CHOOSE x \in S : \A y \in S : x <= y
         IN  <<m>> \o cpu_seq(S \ {m})

\* shared_loop without the deadline test on the other members
RECURSIVE shared_loop_nodl(_, _, _, _, _)
shared_loop_nodl(js, t, cpus, util, max) ==
    IF js = <<>>
    THEN [dl |-> FALSE, util |-> util, max |-> max, cpus |-> cpus]
    ELSE LET j == Head(js)
             jc == cpus[j]
             delta_ns == t - jc.last_update
         IN  IF delta_ns > TICK_NSEC
             THEN shared_loop_nodl(Tail(js), t,
                                   [cpus EXCEPT ![j].iowait_boost = 0],
                                   util, max)
             ELSE LET pick == jc.util * max > jc.max * util
                      b == sugov_iowait_boost(jc,
                               IF pick THEN jc.util ELSE util,
                               IF pick THEN jc.max ELSE max)
                  IN  shared_loop_nodl(Tail(js), t,
                                       [cpus EXCEPT ![j] = b.cpu],
                                       b.util, b.max)

\* shared_loop that takes a member for stale after two ticks
RECURSIVE shared_loop_nostale(_, _, _, _, _)
shared_loop_nostale(js, t, cpus, util, max) ==
    IF js = <<>>
    THEN [dl |-> FALSE, util |-> util, max |-> max, cpus |-> cpus]
    ELSE LET j == Head(js)
             jc == cpus[j]
             delta_ns == t - jc.last_update
         IN  IF delta_ns > 2 * TICK_NSEC
             THEN shared_loop_nostale(Tail(js), t,
                                      [cpus EXCEPT ![j].iowait_boost = 0],
                                      util, max)
             ELSE IF "DL" \in jc.flags
             THEN [dl |-> TRUE, util |-> util, max |-> max, cpus |-> cpus]
             ELSE LET pick == jc.util * max > jc.max * util
                      b == sugov_iowait_boost(jc,
                               IF pick THEN jc.util ELSE util,
                               IF pick THEN jc.max ELSE max)
                  IN  shared_loop_nostale(Tail(js), t,
                                          [cpus EXCEPT ![j] = b.cpu],
                                          b.util, b.max)

\* the loop of sugov_next_freq_shared over the CPUs js, carrying util and max
RECURSIVE shared_loop(_, _, _, _, _)
shared_loop(js, t, cpus, util, max) ==
    IF js = <<>>
    THEN [dl |-> FALSE, util |-> util, max |-> max, cpus |-> cpus]
    ELSE LET j == Head(js)
             jc == cpus[j]
             delta_ns == t - jc.last_update
         IN  IF delta_ns > TICK_NSEC
             THEN shared_loop(Tail(js), t,
                              [cpus EXCEPT ![j].iowait_boost = 0], util, max)
             ELSE IF "DL" \in jc.flags
             THEN [dl |-> TRUE, util |-> util, max |-> max, cpus |-> cpus]
             ELSE LET pick == jc.util * max > jc.max * util
                      b == sugov_iowait_boost(jc,
                               IF pick THEN jc.util ELSE util,
                               IF pick THEN jc.max ELSE max)
                  IN  shared_loop(Tail(js), t, [cpus EXCEPT ![j] = b.cpu],
                                  b.util, b.max)

sugov_next_freq_shared(sg, pol, cpus, t) ==
    LET r == shared_loop(cpu_seq(pol.cpus), t, cpus, 0, 1)
    IN  IF r.dl
        THEN [freq |-> cpuinfo_max_freq, sg |-> sg, cpus |-> r.cpus,
              hit |-> FALSE]
        ELSE LET n == get_next_freq(sg, pol, r.util, r.max)
             IN  [freq |-> n.freq, sg |-> n.sg, cpus |-> r.cpus,
                  hit |-> n.hit]

sugov_update_min(pol, ex) ==
    LET max_cap == arch_scale_cpu_capacity
        min_cap == (((max_cap * pol.min) \div pol.max) * 4) \div 5 + 1
    IN  [c \in CPUS |-> IF c \in pol.cpus
                        THEN [ex[c] EXCEPT !.min = min_cap] ELSE ex[c]]

\* first possible CPU of the class that is active, or -1 (-EINVAL)
find_cpu_pm_qos_class(pol, class) ==
    LET m == {c \in CPUS : qos_min_class(c) = class /\ c \in pol.cpus}
    IN  IF m = {} THEN -1 ELSE CHOOSE c \in m : \A d \in m : c <= d

\* the hardware call cpufreq_policy_apply_limits() makes, or -1 for none
cpufreq_policy_apply_limits(pol) ==
    IF pol.max < pol.cur THEN pol.max
    ELSE IF pol.min > pol.cur THEN pol.min
    ELSE -1

----------------------------------------------------------------------------
(* State after sugov_init(): the sugov_policy is zeroed (kzalloc), the      *)
(* tunables are set, the governor is not started; the device tree enables  *)
(* the slack timer on every CPU                                            *)

ZeroSgPolicy ==
    [last_freq_update_time |-> 0, min_rate_limit_ns |-> 0,
     up_rate_delay_ns |-> 0, down_rate_delay_ns |-> 0, next_freq |-> 0,
     cached_raw_freq |-> 0, work_in_progress |-> FALSE,
     need_freq_update |-> FALSE]

ZeroSgCpu ==
    [sg_policy |-> FALSE, iowait_boost |-> 0, iowait_boost_max |-> 0,
     last_update |-> 0, util |-> 0, max |-> 0, flags |-> {},
     saved_idle_calls |-> 0]

IdleWork == [pending |-> FALSE, pc |-> "idle", ret |-> 0]

InitAt(rates, c0) ==
    /\ clock = c0
    /\ idle_calls = 0
    /\ gov = "stopped"
    /\ policy \in {[cur |-> 1000, min |-> 500, max |-> 2000,
                     fast_switch_enabled |-> fs, cpus |-> cs] :
                        fs \in {FALSE}, cs \in {{0}, {0, 1}}}
    /\ tunables \in {[up_rate_limit_us |-> r[1], down_rate_limit_us |-> r[2]] :
                        r \in rates}
    /\ sg_policy = ZeroSgPolicy
    /\ sugov_cpu = [c \in CPUS |-> ZeroSgCpu]
    /\ sugov_exynos = [c \in CPUS |-> [enabled |-> TRUE, min |-> 0,
                                        started |-> FALSE, timer |-> FALSE,
                                        expired_time |-> DEFAULT_EXPIRED_TIME,
                                        expires |-> 0, due |-> FALSE,
                                        pm |-> "run"]]
    /\ irq_work = FALSE
    /\ work = IdleWork
    /\ work_lock = "free"
    /\ lim = FALSE
    /\ qos = "idle"
    /\ last = NoEvent

InitWith(rates) == InitAt(rates, 0)

policy_is_shared == Cardinality(policy.cpus) > 1

\* the update_util hooks of the domain's CPUs are installed
hooks_installed == gov \in {"started", "limits"}

----------------------------------------------------------------------------
(* Environment *)

Tick(maxtick) ==
    /\ clock < maxtick
    /\ clock' = clock + 1
    /\ last' = NoEvent
    /\ UNCHANGED <<idle_calls, gov, policy, tunables, sg_policy, sugov_cpu,
                   sugov_exynos, irq_work, work, work_lock, lim, qos>>

\* the CPU of a single-CPU policy enters idle (counted by the tick code)
CpuIdle ==
    /\ ~policy_is_shared
    /\ idle_calls < MaxIdleCalls
    /\ idle_calls' = idle_calls + 1
    /\ last' = NoEvent
    /\ UNCHANGED <<clock, gov, policy, tunables, sg_policy, sugov_cpu,
                   sugov_exynos, irq_work, work, work_lock, lim, qos>>

----------------------------------------------------------------------------
(* cpufreq governor interface *)

sugov_start ==
    /\ gov = "stopped"
    /\ gov' = "started"
    /\ LET up == tunables.up_rate_limit_us * NSEC_PER_USEC
           down == tunables.down_rate_limit_us * NSEC_PER_USEC
       IN  sg_policy' = [last_freq_update_time |-> 0,
                         min_rate_limit_ns |-> Min(up, down),
                         up_rate_delay_ns |-> up, down_rate_delay_ns |-> down,
                         next_freq |-> UINT_MAX, cached_raw_freq |-> 0,
                         work_in_progress |-> FALSE,
                         need_freq_update |-> FALSE]
    /\ sugov_cpu' = [c \in CPUS |->
                        IF c \in policy.cpus
                        THEN [ZeroSgCpu EXCEPT !.sg_policy = TRUE,
                                   !.iowait_boost_max = cpuinfo_max_freq]
                        ELSE sugov_cpu[c]]
    /\ sugov_exynos' = [c \in CPUS |->
                        IF c \in policy.cpus /\ sugov_exynos[c].enabled
                        THEN [sugov_exynos[c] EXCEPT !.min = ULONG_MAX,
                                                     !.started = TRUE]
                        ELSE sugov_exynos[c]]
    /\ last' = NoEvent
    /\ UNCHANGED <<clock, idle_calls, policy, tunables, irq_work, work,
                   work_lock, lim, qos>>

\* sugov_stop, first part: sugov_stop_slack and hook removal on every CPU,
\* then synchronize_sched()
sugov_stop_hooks ==
    /\ gov = "started"
    /\ gov' = "stop_irq"
    /\ sugov_exynos' = [c \in CPUS |->
                        IF c \in policy.cpus
                        THEN [sugov_exynos[c] EXCEPT !.started = FALSE,
                                                     !.timer = FALSE]
                        ELSE sugov_exynos[c]]
    /\ last' = NoEvent
    /\ UNCHANGED <<clock, idle_calls, policy, tunables, sg_policy, sugov_cpu,
                   irq_work, work, work_lock, lim, qos>>

\* sugov_stop: irq_work_sync() returns once the irq work is not queued
sugov_stop_irq_sync ==
    /\ gov = "stop_irq"
    /\ ~irq_work
    /\ gov' = "stop_work"
    /\ last' = NoEvent
    /\ UNCHANGED <<clock, idle_calls, policy, tunables, sg_policy, sugov_cpu,
                   sugov_exynos, irq_work, work, work_lock, lim, qos>>

\* sugov_stop: cancel_work_sync() removes a pending work item and returns
\* once sugov_work is not running
sugov_stop_cancel_work ==
    /\ gov = "stop_work"
    /\ work.pc = "idle"
    /\ work' = [work EXCEPT !.pending = FALSE]
    /\ gov' = "stopped"
    /\ last' = NoEvent
    /\ UNCHANGED <<clock, idle_calls, policy, tunables, sg_policy, sugov_cpu,
                   sugov_exynos, irq_work, work_lock, lim, qos>>

\* sugov_limits up to and into the hardware call: the cpufreq core has set
\* the new limits mm; the work lock is taken unless fast switch is enabled
sugov_limits_begin(mm, ok) ==
    /\ gov = "started"
    /\ policy.fast_switch_enabled \/ work_lock = "free"
    /\ gov' = "limits"
    /\ LET pol == [policy EXCEPT !.min = mm[1], !.max = mm[2]]
           f == IF policy.fast_switch_enabled THEN -1
                ELSE cpufreq_policy_apply_limits(pol)
       IN  /\ policy' = IF f >= 0 THEN cpufreq_driver_target(pol, f, ok)
                        ELSE pol
           /\ lim' = (f >= 0)
           /\ last' = IF f >= 0
                      THEN [NoEvent EXCEPT !.op = "limits", !.arg = f]
                      ELSE NoEvent
    /\ work_lock' = IF policy.fast_switch_enabled THEN work_lock ELSE "limits"
    /\ UNCHANGED <<clock, idle_calls, tunables, sg_policy, sugov_cpu,
                   sugov_exynos, irq_work, work, qos>>

\* sugov_limits from the return of the hardware call: unlock,
\* sugov_update_min, raise need_freq_update
sugov_limits_end ==
    /\ gov = "limits"
    /\ gov' = "started"
    /\ lim' = FALSE
    /\ work_lock' = IF work_lock = "limits" THEN "free" ELSE work_lock
    /\ sugov_exynos' = sugov_update_min(policy, sugov_exynos)
    /\ sg_policy' = [sg_policy EXCEPT !.need_freq_update = TRUE]
    /\ last' = [NoEvent EXCEPT !.op = "limits_end"]
    /\ UNCHANGED <<clock, idle_calls, policy, tunables, sugov_cpu, irq_work,
                   work, qos>>

----------------------------------------------------------------------------
(* Slack timer *)

\* ktime_to_us(tick_nohz_get_sleep_length())
get_next_event_time_ms(sleep_length) == sleep_length \div NSEC_PER_USEC

sugov_need_slack_timer(c, ex, boost, sleep_length) ==
    IF boost # 0 THEN FALSE
    ELSE /\ c.util > ex.min
         /\ get_next_event_time_ms(sleep_length) > ex.expired_time

\* the CPU PM notifier on CPU cpu.  timer is timer_pending(), expires the
\* delay in ms the timer was armed with, due tells that jiffies has reached
\* timer->expires; pm is the position of the CPU on its way into and out of
\* deep idle, which orders the notifications
sugov_pm_notifier(cpu, action, boost, sleep_length) ==
    /\ action = CASE sugov_exynos[cpu].pm = "run" -> "CPU_PM_ENTER_PREPARE"
                  [] sugov_exynos[cpu].pm = "prepare" -> "CPU_PM_ENTER"
                  [] OTHER -> "CPU_PM_EXIT_POST"
    /\ LET ex == sugov_exynos[cpu]
           need == sugov_need_slack_timer(sugov_cpu[cpu], ex, boost,
                                          sleep_length)
           ex1 == CASE action = "CPU_PM_ENTER_PREPARE" ->
                        IF need
                        THEN [ex EXCEPT !.timer = TRUE,
                                        !.expires = ex.expired_time,
                                        !.due = FALSE]
                        ELSE [ex EXCEPT !.timer = FALSE]
                    [] action = "CPU_PM_ENTER" ->
                        IF ex.timer /\ ~need
                        THEN [ex EXCEPT !.timer = FALSE] ELSE ex
                    [] OTHER ->
                        IF ex.timer /\ ~ex.due
                        THEN [ex EXCEPT !.timer = FALSE] ELSE ex
           ex2 == IF ex.started THEN ex1 ELSE ex
       IN  sugov_exynos' =
             [sugov_exynos EXCEPT ![cpu] =
                [ex2 EXCEPT !.pm = CASE action = "CPU_PM_ENTER_PREPARE" -> "prepare"
                                     [] action = "CPU_PM_ENTER" -> "idle"
                                     [] OTHER -> "run"]]
    /\ last' = NoEvent
    /\ UNCHANGED <<clock, idle_calls, gov, policy, tunables, sg_policy,
                   sugov_cpu, irq_work, work, work_lock, lim, qos>>

\* the CPU PM notifier on CPU cpu in two steps, for its interleaving with
\* sugov_stop on another CPU.  First step: the notifier reads started; when
\* it is set the notifier goes on to its switch (pm takes the in-flight
\* position "nb_prepare", "nb_enter" or "nb_exit"), otherwise it returns
sugov_pm_notifier_started(cpu, action) ==
    /\ sugov_exynos[cpu].pm \in {"run", "prepare", "idle"}
    /\ action = CASE sugov_exynos[cpu].pm = "run" -> "CPU_PM_ENTER_PREPARE"
                  [] sugov_exynos[cpu].pm = "prepare" -> "CPU_PM_ENTER"
                  [] OTHER -> "CPU_PM_EXIT_POST"
    /\ LET ex == sugov_exynos[cpu]
       IN  sugov_exynos' =
             [sugov_exynos EXCEPT ![cpu].pm =
                CASE action = "CPU_PM_ENTER_PREPARE" ->
                        IF ex.started THEN "nb_prepare" ELSE "prepare"
                  [] action = "CPU_PM_ENTER" ->
                        IF ex.started THEN "nb_enter" ELSE "idle"
                  [] OTHER ->
                        IF ex.started THEN "nb_exit" ELSE "run"]
    /\ last' = NoEvent
    /\ UNCHANGED <<clock, idle_calls, gov, policy, tunables, sg_policy,
                   sugov_cpu, irq_work, work, work_lock, lim, qos>>

\* second step: the switch on the action and the return
sugov_pm_notifier_switch(cpu, boost, sleep_length) ==
    /\ sugov_exynos[cpu].pm \in {"nb_prepare", "nb_enter", "nb_exit"}
    /\ LET ex == sugov_exynos[cpu]
           need == sugov_need_slack_timer(sugov_cpu[cpu], ex, boost,
                                          sleep_length)
           ex1 == CASE ex.pm = "nb_prepare" ->
                        IF need
                        THEN [ex EXCEPT !.timer = TRUE,
                                        !.expires = ex.expired_time,
                                        !.due = FALSE]
                        ELSE [ex EXCEPT !.timer = FALSE]
                    [] ex.pm = "nb_enter" ->
                        IF ex.timer /\ ~need
                        THEN [ex EXCEPT !.timer = FALSE] ELSE ex
                    [] OTHER ->
                        IF ex.timer /\ ~ex.due
                        THEN [ex EXCEPT !.timer = FALSE] ELSE ex
       IN  sugov_exynos' =
             [sugov_exynos EXCEPT ![cpu] =
                [ex1 EXCEPT !.pm = CASE ex.pm = "nb_prepare" -> "prepare"
                                     [] ex.pm = "nb_enter" -> "idle"
                                     [] OTHER -> "run"]]
    /\ last' = NoEvent
    /\ UNCHANGED <<clock, idle_calls, gov, policy, tunables, sg_policy,
                   sugov_cpu, irq_work, work, work_lock, lim, qos>>

\* jiffies reaches the expiry of the pending slack timer of a CPU
TimerDue(cpu) ==
    /\ sugov_exynos[cpu].timer
    /\ ~sugov_exynos[cpu].due
    /\ sugov_exynos' = [sugov_exynos EXCEPT ![cpu].due = TRUE]
    /\ last' = NoEvent
    /\ UNCHANGED <<clock, idle_calls, gov, policy, tunables, sg_policy,
                   sugov_cpu, irq_work, work, work_lock, lim, qos>>

\* the slack timer of a CPU fires when the CPU runs: it is no longer pending
sugov_nop_timer(cpu) ==
    /\ sugov_exynos[cpu].timer
    /\ sugov_exynos[cpu].due
    /\ sugov_exynos[cpu].pm = "run"
    /\ sugov_exynos' = [sugov_exynos EXCEPT ![cpu].timer = FALSE]
    /\ last' = NoEvent
    /\ UNCHANGED <<clock, idle_calls, gov, policy, tunables, sg_policy,
                   sugov_cpu, irq_work, work, work_lock, lim, qos>>

----------------------------------------------------------------------------
(* Rate-limit tunables *)

update_min_rate_limit_us(sg) ==
    [sg EXCEPT !.min_rate_limit_ns =
                    Min(sg.up_rate_delay_ns, sg.down_rate_delay_ns)]

\* policy->governor_data and its tunables exist from sugov_init on
sugov_update_rate_limit_us(up_rate_limit_ms, down_rate_limit_ms) ==
    /\ tunables' = [up_rate_limit_us |->
                        (up_rate_limit_ms * USEC_PER_MSEC) % (UINT_MAX + 1),
                    down_rate_limit_us |->
                        (down_rate_limit_ms * USEC_PER_MSEC) % (UINT_MAX + 1)]
    /\ sg_policy' = update_min_rate_limit_us(
                        [sg_policy EXCEPT
                            !.up_rate_delay_ns =
                                up_rate_limit_ms * NSEC_PER_MSEC,
                            !.down_rate_delay_ns =
                                down_rate_limit_ms * NSEC_PER_MSEC])
    /\ last' = NoEvent
    /\ UNCHANGED <<clock, idle_calls, gov, policy, sugov_cpu, sugov_exynos,
                   irq_work, work, work_lock, lim, qos>>

\* sysfs store of up_rate_limit_us; the policy list of the attribute set
\* holds the one sugov_policy
up_rate_limit_us_store(rate_limit_us) ==
    /\ tunables' = [tunables EXCEPT !.up_rate_limit_us = rate_limit_us]
    /\ sg_policy' = update_min_rate_limit_us(
                        [sg_policy EXCEPT !.up_rate_delay_ns =
                                            rate_limit_us * NSEC_PER_USEC])
    /\ last' = NoEvent
    /\ UNCHANGED <<clock, idle_calls, gov, policy, sugov_cpu, sugov_exynos,
                   irq_work, work, work_lock, lim, qos>>

down_rate_limit_us_store(rate_limit_us) ==
    /\ tunables' = [tunables EXCEPT !.down_rate_limit_us = rate_limit_us]
    /\ sg_policy' = update_min_rate_limit_us(
                        [sg_policy EXCEPT !.down_rate_delay_ns =
                                            rate_limit_us * NSEC_PER_USEC])
    /\ last' = NoEvent
    /\ UNCHANGED <<clock, idle_calls, gov, policy, sugov_cpu, sugov_exynos,
                   irq_work, work, work_lock, lim, qos>>

----------------------------------------------------------------------------
(* Utilization update hooks *)

\* observation record of a sample handler; g is the result of the
\* should-update gate
SampleEvent(g, target, hit, outcome) ==
    IF g.ret
    THEN [op |-> "sample", prev |-> g.sg.next_freq,
          delta |-> time - sg_policy.last_freq_update_time,
          target |-> target, hit |-> hit, outcome |-> outcome, arg |-> -1,
          locks |-> {}]
    ELSE NoEvent

sugov_update_shared(c, u, flags, scaling_cpu) ==
    /\ hooks_installed
    /\ policy_is_shared
    /\ c \in policy.cpus
    /\ LET gu == sugov_get_util(u)
           c1 == [sugov_cpu[c] EXCEPT !.util = gu.util, !.max = gu.max,
                                      !.flags = flags]
           c2 == [sugov_set_iowait_boost(c1, time, flags)
                      EXCEPT !.last_update = time]
           cpus1 == [sugov_cpu EXCEPT ![c] = c2]
           g == sugov_should_update_freq(sg_policy, time)
           n == IF "DL" \in flags
                THEN [freq |-> cpuinfo_max_freq, sg |-> g.sg, cpus |-> cpus1,
                      hit |-> FALSE]
                ELSE sugov_next_freq_shared(g.sg, policy, cpus1, time)
           cm == sugov_update_commit(n.sg, policy, time, n.freq, scaling_cpu)
       IN  IF g.ret
           THEN /\ sg_policy' = cm.sg
                /\ sugov_cpu' = n.cpus
                /\ policy' = [policy EXCEPT !.cur = cm.cur]
                /\ irq_work' = (irq_work \/ cm.queue)
                /\ last' = [SampleEvent(g, n.freq, n.hit, cm.outcome)
                                EXCEPT !.locks = {"update_lock"}]
           ELSE /\ sg_policy' = g.sg
                /\ sugov_cpu' = cpus1
                /\ last' = NoEvent
                /\ UNCHANGED <<policy, irq_work>>
    /\ UNCHANGED <<clock, idle_calls, gov, tunables, sugov_exynos, work,
                   work_lock, lim, qos>>

sugov_update_single(c, u, flags, scaling_cpu) ==
    /\ hooks_installed
    /\ ~policy_is_shared
    /\ c \in policy.cpus
    /\ LET c1 == [sugov_set_iowait_boost(sugov_cpu[c], time, flags)
                      EXCEPT !.last_update = time]
           g == sugov_should_update_freq(sg_policy, time)
           b == sugov_cpu_is_busy(c1, idle_calls)
           gu == sugov_get_util(u)
           io == sugov_iowait_boost(b.cpu, gu.util, gu.max)
           n == get_next_freq(g.sg, policy, io.util, io.max)
           hold == b.ret /\ n.freq < n.sg.next_freq
           next_f == IF "DL" \in flags THEN cpuinfo_max_freq
                     ELSE IF hold THEN n.sg.next_freq
                     ELSE n.freq
           sg2 == IF "DL" \in flags THEN g.sg
                  ELSE IF hold THEN [n.sg EXCEPT !.cached_raw_freq = 0]
                  ELSE n.sg
           c3 == IF "DL" \in flags THEN b.cpu ELSE io.cpu
           cm == sugov_update_commit(sg2, policy, time, next_f, scaling_cpu)
       IN  IF g.ret
           THEN /\ sg_policy' = cm.sg
                /\ sugov_cpu' = [sugov_cpu EXCEPT ![c] = c3]
                /\ policy' = [policy EXCEPT !.cur = cm.cur]
                /\ irq_work' = (irq_work \/ cm.queue)
                /\ last' = SampleEvent(g, next_f,
                                       "DL" \notin flags /\ n.hit, cm.outcome)
           ELSE /\ sg_policy' = g.sg
                /\ sugov_cpu' = [sugov_cpu EXCEPT ![c] = c1]
                /\ last' = NoEvent
                /\ UNCHANGED <<policy, irq_work>>
    /\ UNCHANGED <<clock, idle_calls, gov, tunables, sugov_exynos, work,
                   work_lock, lim, qos>>

----------------------------------------------------------------------------
(* Deferred path *)

\* the irq work runs: schedule_work_on()
sugov_irq_work ==
    /\ irq_work
    /\ irq_work' = FALSE
    /\ work' = [work EXCEPT !.pending = TRUE]
    /\ last' = NoEvent
    /\ UNCHANGED <<clock, idle_calls, gov, policy, tunables, sg_policy,
                   sugov_cpu, sugov_exynos, work_lock, lim, qos>>

\* sugov_work: mutex_lock and entry into __cpufreq_driver_target with the
\* next_freq read at the call; ret is what the call will return
sugov_work_begin(ok) ==
    /\ work.pending
    /\ work.pc = "idle"
    /\ work_lock = "free"
    /\ work_lock' = "work"
    /\ work' = [pending |-> FALSE, pc |-> "target",
                ret |-> IF ok THEN 0 ELSE -1]
    /\ policy' = cpufreq_driver_target(policy, sg_policy.next_freq, ok)
    /\ last' = [NoEvent EXCEPT !.op = "work", !.arg = sg_policy.next_freq]
    /\ UNCHANGED <<clock, idle_calls, gov, tunables, sg_policy, sugov_cpu,
                   sugov_exynos, irq_work, lim, qos>>

\* sugov_work: the hardware call returns (success or error), mutex_unlock
sugov_work_unlock ==
    /\ work.pc = "target"
    /\ work' = [work EXCEPT !.pc = "unlocked"]
    /\ work_lock' = "free"
    /\ last' = NoEvent
    /\ UNCHANGED <<clock, idle_calls, gov, policy, tunables, sg_policy,
                   sugov_cpu, sugov_exynos, irq_work, lim, qos>>

\* sugov_work that returns early, flag still set, when the call failed
sugov_work_end_unless_error ==
    /\ work.pc = "unlocked"
    /\ sg_policy' = IF work.ret = 0
                    THEN [sg_policy EXCEPT !.work_in_progress = FALSE]
                    ELSE sg_policy
    /\ work' = [work EXCEPT !.pc = "idle", !.ret = 0]
    /\ last' = [NoEvent EXCEPT
                    !.op = "work_end",
                    !.outcome = IF work.ret = 0 THEN "ok" ELSE "error"]
    /\ UNCHANGED <<clock, idle_calls, gov, policy, tunables, sugov_cpu,
                   sugov_exynos, irq_work, work_lock, lim, qos>>

\* sugov_work: work_in_progress = false, whatever the hardware call returned
sugov_work_end ==
    /\ work.pc = "unlocked"
    /\ sg_policy' = [sg_policy EXCEPT !.work_in_progress = FALSE]
    /\ work' = [work EXCEPT !.pc = "idle", !.ret = 0]
    /\ last' = [NoEvent EXCEPT
                    !.op = "work_end",
                    !.outcome = IF work.ret = 0 THEN "ok" ELSE "error"]
    /\ UNCHANGED <<clock, idle_calls, gov, policy, tunables, sugov_cpu,
                   sugov_exynos, irq_work, work_lock, lim, qos>>

----------------------------------------------------------------------------
(* PM QoS minimum-frequency notifier *)

\* the checks with the comparison turned round: call for a floor above cur
sugov_pm_qos_check_above(pol, cpus, class, val) ==
    LET cpu == find_cpu_pm_qos_class(pol, class)
    IN  IF cpu < 0 THEN "NOTIFY_BAD"
        ELSE IF ~cpus[cpu].sg_policy THEN "NOTIFY_BAD"
        ELSE IF val <= pol.cur THEN "NOTIFY_BAD"
        ELSE "call"

\* the checks with val > policy->cur: call also for a floor equal to cur
sugov_pm_qos_check_at(pol, cpus, class, val) ==
    LET cpu == find_cpu_pm_qos_class(pol, class)
    IN  IF cpu < 0 THEN "NOTIFY_BAD"
        ELSE IF ~cpus[cpu].sg_policy THEN "NOTIFY_BAD"
        ELSE IF val > pol.cur THEN "NOTIFY_BAD"
        ELSE "call"

\* the checks of sugov_pm_qos_callback: whether it goes on to its hardware
\* call or returns NOTIFY_BAD
sugov_pm_qos_check(pol, cpus, class, val) ==
    LET cpu == find_cpu_pm_qos_class(pol, class)
    IN  IF cpu < 0 THEN "NOTIFY_BAD"
        ELSE IF ~cpus[cpu].sg_policy THEN "NOTIFY_BAD"
        ELSE IF val >= pol.cur THEN "NOTIFY_BAD"
        ELSE "call"

\* sugov_pm_qos_callback up to its return or into its hardware call
sugov_pm_qos_callback(class, val, ok) ==
    /\ qos = "idle"
    /\ LET out == sugov_pm_qos_check(policy, sugov_cpu, class, val)
       IN  /\ qos' = IF out = "call" THEN "target" ELSE qos
           /\ policy' = IF out = "call"
                        THEN cpufreq_driver_target(policy, sg_policy.next_freq, ok)
                        ELSE policy
           /\ last' = IF out = "call"
                      THEN [NoEvent EXCEPT
                               !.op = "qos", !.outcome = "NOTIFY_OK",
                               !.prev = policy.cur, !.target = val,
                               !.arg = sg_policy.next_freq]
                      ELSE [NoEvent EXCEPT !.op = "qos", !.outcome = out]
    /\ UNCHANGED <<clock, idle_calls, gov, tunables, sg_policy, sugov_cpu,
                   sugov_exynos, irq_work, work, work_lock, lim>>

\* the hardware call of sugov_pm_qos_callback returns
sugov_pm_qos_return ==
    /\ qos = "target"
    /\ qos' = "idle"
    /\ last' = NoEvent
    /\ UNCHANGED <<clock, idle_calls, gov, policy, tunables, sg_policy,
                   sugov_cpu, sugov_exynos, irq_work, work, work_lock, lim>>

----------------------------------------------------------------------------

(* The whole governor: the governor callbacks, the update hooks, the      *)
(* deferred path and the PM QoS notifier, with one rate-limit configuration, *)
(* samples without request flags arriving on CPU 0, and hardware errors    *)
(* in the deferred worker's call                                           *)

SampleInputsAll == {0} \X Utils \X {{}}

Init == InitWith({<<2000, 1000>>})

Next ==
    \/ Tick(MaxTickAll)
    \/ CpuIdle
    \/ sugov_start
    \/ sugov_stop_hooks
    \/ sugov_stop_irq_sync
    \/ sugov_stop_cancel_work
    \/ \E mm \in PolicyLimits : sugov_limits_begin(mm, TRUE)
    \/ sugov_limits_end
    \/ \E x \in SampleInputsAll, k \in ScalingCpus :
            sugov_update_shared(x[1], x[2], x[3], k)
    \/ \E x \in SampleInputsAll, k \in ScalingCpus :
            sugov_update_single(x[1], x[2], x[3], k)
    \/ sugov_irq_work
    \/ \E ok \in BOOLEAN : sugov_work_begin(ok)
    \/ sugov_work_unlock
    \/ sugov_work_end
    \/ \E class \in QosClasses, val \in QosVals :
            sugov_pm_qos_callback(class, val, TRUE)
    \/ sugov_pm_qos_return

Spec == Init /\ [][Next]_vars

(* The whole governor under the scheduling the kernel gives the deferred   *)
(* path: a raised irq work runs, a queued work item gets its turn at the   *)
(* work_lock, and a function that has started runs to its end              *)
SpecLive ==
    /\ Init
    /\ [][Next]_vars
    /\ WF_vars(sugov_irq_work)
    /\ SF_vars(\E ok \in BOOLEAN : sugov_work_begin(ok))
    /\ WF_vars(sugov_work_unlock)
    /\ WF_vars(sugov_work_end)
    /\ WF_vars(sugov_limits_end)

(* The sampling path: start, samples, the deferred worker and limits       *)
(* updates that keep the policy limits, over both rate-limit              *)
(* configurations and a longer clock, with samples arriving on CPU 0      *)

SampleInputs == {0} \X Utils \X FlagSets

PolicyLimitsRate == {<<500, 2000>>}

InitRate == InitWith(RateLimits)

NextRate ==
    \/ Tick(MaxTick)
    \/ CpuIdle
    \/ sugov_start
    \/ \E mm \in PolicyLimitsRate : sugov_limits_begin(mm, TRUE)
    \/ sugov_limits_end
    \/ \E x \in SampleInputs, k \in ScalingCpus :
            sugov_update_shared(x[1], x[2], x[3], k)
    \/ \E x \in SampleInputs, k \in ScalingCpus :
            sugov_update_single(x[1], x[2], x[3], k)
    \/ sugov_irq_work
    \/ sugov_work_begin(TRUE)
    \/ sugov_work_unlock
    \/ sugov_work_end

SpecRate == InitRate /\ [][NextRate]_vars

(* The aggregation over the CPUs of a domain: the rate limits are zero,    *)
(* so that every sample outside a deferred apply passes the should-update *)
(* gate, and samples arrive on every CPU of the domain at instants 20 us  *)
(* and one tick apart                                                      *)

SampleInputsShared == CPUS \X UtilsShared \X FlagSetsShared

InitShared == InitAt({<<0, 0>>}, SharedBase)

NextShared ==
    \/ Tick(SharedBase + MaxTickShared)
    \/ CpuIdle
    \/ sugov_start
    \/ \E x \in SampleInputsShared, k \in ScalingCpus :
            sugov_update_shared(x[1], x[2], x[3], k)
    \/ \E x \in SampleInputsShared, k \in ScalingCpus :
            sugov_update_single(x[1], x[2], x[3], k)
    \/ sugov_irq_work
    \/ sugov_work_begin(TRUE)
    \/ sugov_work_unlock
    \/ sugov_work_end

SpecShared == InitShared /\ [][NextShared]_vars

(* The iowait boost: samples with and without the I/O-wait flag arriving   *)
(* on CPU 0 of a domain whose rate limits are zero                         *)

SampleInputsBoost == {0} \X Utils \X FlagSetsBoost

InitBoost == InitWith({<<0, 0>>})

NextBoost ==
    \/ Tick(MaxTick)
    \/ CpuIdle
    \/ sugov_start
    \/ \E x \in SampleInputsBoost, k \in ScalingCpus :
            sugov_update_shared(x[1], x[2], x[3], k)
    \/ \E x \in SampleInputsBoost, k \in ScalingCpus :
            sugov_update_single(x[1], x[2], x[3], k)
    \/ sugov_irq_work
    \/ sugov_work_begin(TRUE)
    \/ sugov_work_unlock
    \/ sugov_work_end

SpecBoost == InitBoost /\ [][NextBoost]_vars

(* The rate-limit tunables: writes through sysfs and through             *)
(* sugov_update_rate_limit_us at any time after sugov_init, with the       *)
(* governor started and stopped and samples arriving on CPU 0              *)

InitTunables == InitWith({<<2000, 1000>>})

NextTunables ==
    \/ Tick(MaxTickAll)
    \/ sugov_start
    \/ sugov_stop_hooks
    \/ sugov_stop_irq_sync
    \/ sugov_stop_cancel_work
    \/ \E v \in RateLimitUs : up_rate_limit_us_store(v)
    \/ \E v \in RateLimitUs : down_rate_limit_us_store(v)
    \/ \E a, b \in RateLimitMs : sugov_update_rate_limit_us(a, b)
    \/ \E x \in SampleInputsAll, k \in ScalingCpus :
            sugov_update_shared(x[1], x[2], x[3], k)
    \/ \E x \in SampleInputsAll, k \in ScalingCpus :
            sugov_update_single(x[1], x[2], x[3], k)
    \/ sugov_irq_work
    \/ sugov_work_begin(TRUE)
    \/ sugov_work_unlock
    \/ sugov_work_end

SpecTunables == InitTunables /\ [][NextTunables]_vars

(* The slack timer: CPU 0 goes into and out of deep idle while the         *)
(* governor is started and stopped, the limits handler sets the minimum   *)
(* floor and samples arrive on CPU 0                                       *)

InitSlack == InitWith({<<2000, 1000>>})

NextSlack ==
    \/ Tick(MaxTickAll)
    \/ sugov_start
    \/ sugov_stop_hooks
    \/ sugov_stop_irq_sync
    \/ sugov_stop_cancel_work
    \/ \E mm \in PolicyLimitsRate : sugov_limits_begin(mm, TRUE)
    \/ sugov_limits_end
    \/ \E x \in SampleInputsAll, k \in ScalingCpus :
            sugov_update_shared(x[1], x[2], x[3], k)
    \/ \E x \in SampleInputsAll, k \in ScalingCpus :
            sugov_update_single(x[1], x[2], x[3], k)
    \/ sugov_irq_work
    \/ sugov_work_begin(TRUE)
    \/ sugov_work_unlock
    \/ sugov_work_end
    \/ \E a \in PmActions, b \in BoostVals, sl \in SleepLengths :
            sugov_pm_notifier(0, a, b, sl)
    \/ TimerDue(0)
    \/ sugov_nop_timer(0)

SpecSlack == InitSlack /\ [][NextSlack]_vars

(* The slack timer while the governor stops: as SpecSlack, with the CPU PM *)
(* notifier of CPU 0 taken in its two steps, so that sugov_stop on another *)
(* CPU can run between them                                                *)

NextSlackStop ==
    \/ sugov_start
    \/ sugov_stop_hooks
    \/ sugov_stop_irq_sync
    \/ sugov_stop_cancel_work
    \/ \E mm \in PolicyLimitsRate : sugov_limits_begin(mm, TRUE)
    \/ sugov_limits_end
    \/ \E x \in SampleInputsAll, k \in ScalingCpus :
            sugov_update_shared(x[1], x[2], x[3], k)
    \/ \E x \in SampleInputsAll, k \in ScalingCpus :
            sugov_update_single(x[1], x[2], x[3], k)
    \/ sugov_irq_work
    \/ sugov_work_begin(TRUE)
    \/ sugov_work_unlock
    \/ sugov_work_end
    \/ \E a \in PmActions : sugov_pm_notifier_started(0, a)
    \/ \E b \in BoostVals, sl \in SleepLengths :
            sugov_pm_notifier_switch(0, b, sl)
    \/ TimerDue(0)
    \/ sugov_nop_timer(0)

SpecSlackStop == InitSlack /\ [][NextSlackStop]_vars

-----------------------------------------------------------------------------
(* Properties of the rate limiter                                          *)

\* a step that processes one utilisation sample, whatever its inputs
SampleStep ==
    \E x \in SampleInputs, k \in ScalingCpus :
        \/ sugov_update_shared(x[1], x[2], x[3], k)
        \/ sugov_update_single(x[1], x[2], x[3], k)

\* the committed target the hysteresis gate compares with: next_freq as the
\* should-update gate leaves it
CommittedAtGate ==
    IF sg_policy.need_freq_update THEN UINT_MAX ELSE sg_policy.next_freq

\* nothing is committed or dispatched by the step
NothingCommitted ==
    /\ sg_policy'.next_freq = CommittedAtGate
    /\ sg_policy'.last_freq_update_time = sg_policy.last_freq_update_time
    /\ sg_policy'.work_in_progress = sg_policy.work_in_progress
    /\ irq_work' = irq_work
    /\ work' = work
    /\ policy' = policy

\* C1: a sample that passed the should-update gate commits its target T
\* only if T is above the committed target and the up delay has elapsed
\* since the last commit, or T is below it and the down delay has elapsed;
\* otherwise the committed target, the commit timestamp and the in-flight
\* flag stay as they were and nothing is dispatched.  With up = 2000 us and
\* down = 20000 us no sample commits 1000 us after the last commit, and an
\* increasing target 2001 us after it is committed.
C1_HysteresisGate ==
    [][LET d == time - sg_policy.last_freq_update_time
           T == last'.target
           G == CommittedAtGate
       IN  /\ last'.op = "sample" =>
                \/ /\ T > G
                   /\ d >= sg_policy.up_rate_delay_ns
                \/ /\ T < G
                   /\ d >= sg_policy.down_rate_delay_ns
                \/ NothingCommitted
           /\ ( /\ SampleStep
                /\ tunables.up_rate_limit_us = 2000
                /\ tunables.down_rate_limit_us = 20000
                /\ d = 1000 * NSEC_PER_USEC ) =>
                /\ sg_policy'.last_freq_update_time
                        = sg_policy.last_freq_update_time
                /\ sg_policy'.next_freq \in {sg_policy.next_freq, UINT_MAX}
                /\ sg_policy'.work_in_progress = sg_policy.work_in_progress
                /\ irq_work' = irq_work
                /\ policy' = policy
           /\ ( /\ last'.op = "sample"
                /\ tunables.up_rate_limit_us = 2000
                /\ tunables.down_rate_limit_us = 20000
                /\ d = 2001 * NSEC_PER_USEC
                /\ T > G ) =>
                /\ sg_policy'.next_freq = T
                /\ sg_policy'.last_freq_update_time = time
      ]_vars

\* an increasing target committed 2001 us after the last commit under
\* up = 2000 us, down = 20000 us
C1_Witness ==
    /\ tunables.up_rate_limit_us = 2000
    /\ tunables.down_rate_limit_us = 20000
    /\ last.op = "sample"
    /\ last.delta = 2001 * NSEC_PER_USEC
    /\ last.target > last.prev
    /\ sg_policy.next_freq = last.target
    /\ sg_policy.last_freq_update_time = time

\* C2: while need_freq_update is clear, a sample that arrives with a
\* deferred apply in flight, or less than min_rate_limit_ns after the last
\* commit, recomputes nothing: the committed target, the commit timestamp,
\* the cached raw frequency and every other field of the sugov_policy stay
\* as they were, nothing is dispatched and no hardware call is made.  So a
\* second identical sample inside the window is never applied.
C2_SkippedSampleChangesNothing ==
    [][( /\ SampleStep
         /\ ~sg_policy.need_freq_update
         /\ \/ sg_policy.work_in_progress
            \/ time - sg_policy.last_freq_update_time
                    < sg_policy.min_rate_limit_ns ) =>
            /\ sg_policy' = sg_policy
            /\ irq_work' = irq_work
            /\ work' = work
            /\ policy' = policy
            /\ last'.op # "sample"
      ]_vars

\* a CPU was sampled after the last commit and inside the minimum window,
\* with the committed target still in place
C2_Witness ==
    /\ hooks_installed
    /\ ~sg_policy.need_freq_update
    /\ sg_policy.next_freq # UINT_MAX
    /\ \E c \in policy.cpus :
        /\ sugov_cpu[c].last_update > sg_policy.last_freq_update_time
        /\ sugov_cpu[c].last_update - sg_policy.last_freq_update_time
                < sg_policy.min_rate_limit_ns

\* C3 as stated: once sugov_limits has raised need_freq_update, the next
\* sample of the group passes the should-update gate whatever the elapsed
\* time and whether or not a deferred apply is in flight: it clears the
\* flag and sets the committed target to unknown.
C3_ForcedAlways ==
    [][(SampleStep /\ sg_policy.need_freq_update) =>
            /\ ~sg_policy'.need_freq_update
            /\ last'.op = "sample"
            /\ last'.prev = UINT_MAX
      ]_vars

\* C3, amended: once sugov_limits has raised need_freq_update, the next
\* sample of the group that arrives while no deferred apply is in flight
\* passes the should-update gate whatever the elapsed time, clears the
\* flag, sets the committed target to unknown, and the selector resolves
\* its candidate afresh instead of returning the cached target; a sample
\* that arrives while a deferred apply is in flight is skipped and leaves
\* the flag raised.
C3_ForcedUnlessInFlight ==
    [][(SampleStep /\ sg_policy.need_freq_update) =>
            IF sg_policy.work_in_progress
            THEN /\ sg_policy' = sg_policy
                 /\ last'.op # "sample"
            ELSE /\ ~sg_policy'.need_freq_update
                 /\ last'.op = "sample"
                 /\ last'.prev = UINT_MAX
                 /\ ~last'.hit
                 /\ sg_policy'.next_freq \in {UINT_MAX, last'.target}
      ]_vars

\* a forced sample passed inside the minimum window since the last commit
C3_Witness ==
    /\ last.op = "sample"
    /\ last.prev = UINT_MAX
    /\ last.delta < sg_policy.min_rate_limit_ns
    /\ ~last.hit
    /\ ~sg_policy.need_freq_update

-----------------------------------------------------------------------------
(* Properties of the deferred apply                                        *)

\* deferred applies outstanding: signalled to the irq work, queued for the
\* worker, or in the worker's blocking hardware call
Outstanding ==
    (IF irq_work THEN 1 ELSE 0) + (IF work.pending THEN 1 ELSE 0)
        + (IF work.pc = "target" THEN 1 ELSE 0)

\* C4: at most one deferred apply is outstanding for a group, from the
\* commit that raises work_in_progress and signals the irq work until the
\* worker's blocking hardware call has returned: no commit signals the irq
\* work while an earlier deferred apply is outstanding, and the flag is up
\* for as long as one is.
C4_OneDeferredApply ==
    [][/\ Outstanding' <= 1
       /\ (last'.op = "sample" /\ last'.outcome = "deferred") =>
            /\ Outstanding = 0
            /\ ~sg_policy.work_in_progress
            /\ irq_work' /\ sg_policy'.work_in_progress
       /\ (Outstanding' = 1 /\ hooks_installed') =>
            sg_policy'.work_in_progress
      ]_vars

\* a sample arrived while a deferred apply was outstanding
C4_Witness ==
    /\ Outstanding = 1
    /\ sg_policy.work_in_progress
    /\ \E c \in policy.cpus :
            sugov_cpu[c].last_update > sg_policy.last_freq_update_time

\* C5: under fair scheduling of the irq work and the worker, and while the
\* governor is not stopped, a raised work_in_progress is eventually cleared
\* by the worker, whether its hardware call succeeded or failed, so that
\* a later sample can pass the should-update gate again.
C5_InFlightEventuallyCleared ==
    sg_policy.work_in_progress
        ~> (~sg_policy.work_in_progress \/ ~hooks_installed)

\* the worker has cleared the flag after a hardware call that failed
C5_Witness ==
    /\ last.op = "work_end"
    /\ last.outcome = "error"
    /\ hooks_installed
    /\ ~sg_policy.work_in_progress

-----------------------------------------------------------------------------
(* Properties of the hardware-set calls                                    *)

\* callers inside a blocking hardware-set call for the domain: the deferred
\* worker, the limits handler, the PM QoS callback
InHardwareCall ==
    (IF work.pc = "target" THEN 1 ELSE 0) + (IF lim THEN 1 ELSE 0)
        + (IF qos = "target" THEN 1 ELSE 0)

\* C6: the blocking hardware-set calls of one policy domain are mutually
\* exclusive: the deferred worker, the limits handler and the min-floor
\* callback are never inside such a call at the same time.
C6_HardwareCallsExclusive == InHardwareCall <= 1

\* C7: once sugov_stop has returned, and until the governor is started
\* again, no step enters a hardware-set call for the group, be it from the
\* worker, from a pending irq work or from the min-floor callback.
C7_NoCallAfterStop ==
    [][gov = "stopped" => last'.arg < 0]_vars

-----------------------------------------------------------------------------
(* Properties of the minimum-floor callback                                *)

\* the active cores of a PM QoS class
ActiveCores(class) == {c \in policy.cpus : qos_min_class(c) = class}

\* the class has an active core, and the governor has been started on it
ResolvesToGroup(class) ==
    /\ ActiveCores(class) # {}
    /\ \A c \in ActiveCores(class) : sugov_cpu[c].sg_policy

\* the step enters exactly one blocking hardware-set call, from the
\* callback, with the committed target
QosCallEntered ==
    /\ qos = "idle" /\ qos' = "target"
    /\ last'.op = "qos"
    /\ last'.outcome = "NOTIFY_OK"
    /\ last'.arg = sg_policy.next_freq

\* the step enters no hardware-set call
NoCallEntered ==
    /\ last'.arg < 0
    /\ qos' = qos
    /\ policy' = policy

\* C8 as stated: a notification whose floor is above the current frequency,
\* for a class with an active core, enters exactly one blocking call with
\* the committed target; one whose floor is below it enters none.
C8_CallWhenFloorAbove ==
    [][\A class \in QosClasses, val \in QosVals :
        ( /\ \E ok \in BOOLEAN : sugov_pm_qos_callback(class, val, ok)
          /\ ResolvesToGroup(class) ) =>
            /\ val > policy.cur => QosCallEntered
            /\ val < policy.cur => NoCallEntered
      ]_vars

\* C8, amended: a notification whose floor is below the current frequency,
\* for a class with an active core that has a PolicyGroup, enters exactly
\* one blocking call whose target is the group's committed target; one
\* whose floor is above the current frequency enters no call.
C8_CallWhenFloorBelow ==
    [][\A class \in QosClasses, val \in QosVals :
        ( /\ \E ok \in BOOLEAN : sugov_pm_qos_callback(class, val, ok)
          /\ ResolvesToGroup(class) ) =>
            /\ val < policy.cur => QosCallEntered
            /\ val > policy.cur => NoCallEntered
      ]_vars

\* the callback is in its call, entered for a floor below the frequency
\* the single-CPU domain ran at, with the committed target
C8_Witness ==
    /\ ~policy_is_shared
    /\ qos = "target"
    /\ last.op = "qos"
    /\ last.target < last.prev
    /\ last.arg = sg_policy.next_freq

\* C9: for a class that resolves to an active core with a PolicyGroup the
\* callback enters a blocking call, with the committed target, exactly
\* when the floor is strictly below policy->cur; at or above it there is
\* no call and no governor state changes; for a class without an active
\* core the notification is rejected without a call.
C9_CallIffFloorBelow ==
    [][\A class \in QosClasses, val \in QosVals :
        (\E ok \in BOOLEAN : sugov_pm_qos_callback(class, val, ok)) =>
            IF ActiveCores(class) = {}
            THEN /\ NoCallEntered
                 /\ last'.op = "qos" /\ last'.outcome = "NOTIFY_BAD"
            ELSE ResolvesToGroup(class) =>
                    /\ QosCallEntered <=> val < policy.cur
                    /\ val >= policy.cur =>
                            /\ NoCallEntered
                            /\ last'.outcome = "NOTIFY_BAD"
                            /\ sg_policy' = sg_policy
                            /\ sugov_cpu' = sugov_cpu
                            /\ sugov_exynos' = sugov_exynos
                            /\ irq_work' = irq_work /\ work' = work
      ]_vars

\* in a started multi-CPU domain the callback is in its call, entered with
\* the committed target for a floor strictly below policy->cur
C9_Witness ==
    /\ hooks_installed
    /\ policy_is_shared
    /\ qos = "target"
    /\ last.op = "qos"
    /\ last.outcome = "NOTIFY_OK"
    /\ last.target < last.prev
    /\ last.arg = sg_policy.next_freq

-----------------------------------------------------------------------------
(* Properties of the frequency selector                                    *)

\* C10: in every reachable state in which a sample passes the
\* should-update gate, get_next_freq on the group as the gate leaves it is
\* monotone in the utilisation, at the capacity and reference frequency of
\* the domain: u1 <= u2 implies get_next_freq(u1) <= get_next_freq(u2).
C10_SelectorMonotone ==
    LET g == sugov_should_update_freq(sg_policy, time)
    IN  (hooks_installed /\ g.ret) =>
            \A u1, u2 \in Utils :
                u1 <= u2 =>
                    get_next_freq(g.sg, policy, u1,
                                  arch_scale_cpu_capacity).freq
                        <= get_next_freq(g.sg, policy, u2,
                                         arch_scale_cpu_capacity).freq

-----------------------------------------------------------------------------
(* Properties of the shared aggregation                                    *)

\* a step that processes one utilisation sample of a member of the two-CPU
\* domain
SharedStep ==
    \E x \in SampleInputsShared, k \in ScalingCpus :
        sugov_update_shared(x[1], x[2], x[3], k)

\* the online members whose last sample, the step's own included, is at most
\* one tick old at the time of the step
NonStale ==
    {j \in policy.cpus : time - sugov_cpu'[j].last_update <= TICK_NSEC}

\* a member of maximal util/max among the non-stale ones, compared by
\* cross-multiplication
MaxRatioCpu ==
    CHOOSE j \in NonStale :
        \A i \in NonStale :
            sugov_cpu'[j].util * sugov_cpu'[i].max
                >= sugov_cpu'[i].util * sugov_cpu'[j].max

\* the frequency resolved for the candidate (f_ref + f_ref/4) * u / c
ResolvedFor(u, c) ==
    cpufreq_driver_resolve_freq(
        policy, (freqvar_tipping_point(policy.max) * u) \div c)

\* C11: when a sample of a shared domain passes the should-update gate and
\* no non-stale member carries the deadline flag, the computed target is the
\* frequency resolved for the candidate (f_ref + f_ref/4) * u / c of the
\* (u, c) pair of maximal ratio among the online members whose last sample
\* is at most one tick old; so two CPUs of capacity 1024 reporting 800 and,
\* 20 us later, 200 yield the target resolved for 1.25 * f_ref * 800 / 1024.
C11_SharedAggregation ==
    [][( /\ SharedStep
         /\ last'.op = "sample"
         /\ \A j \in NonStale : "DL" \notin sugov_cpu'[j].flags ) =>
            last'.target = ResolvedFor(sugov_cpu'[MaxRatioCpu].util,
                                       sugov_cpu'[MaxRatioCpu].max)
      ]_vars

\* C12: whenever a sample passes the should-update gate and a non-stale
\* online CPU of the domain, the sampling CPU or any other member, has the
\* deadline flag in its last flags, the computed target is the maximum
\* frequency of the domain (cpuinfo.max_freq), whatever the utilisation of
\* the CPUs and whatever the cached raw frequency and committed target.
C12_DeadlineShortCircuit ==
    [][last'.op = "sample" =>
        \A x \in SampleInputsShared, k \in ScalingCpus :
            ( /\ \/ "DL" \in x[3]
                 \/ \E j \in NonStale : "DL" \in sugov_cpu'[j].flags
              /\ \/ sugov_update_shared(x[1], x[2], x[3], k)
                 \/ sugov_update_single(x[1], x[2], x[3], k) ) =>
                last'.target = cpuinfo_max_freq
      ]_vars

\* a sample without the deadline flag, of low utilisation, passed the gate
\* while the other member, sampled earlier and within the tick, carried the
\* deadline flag: the target is the maximum frequency
C12_Witness ==
    /\ last.op = "sample"
    /\ last.target = cpuinfo_max_freq
    /\ \E c, j \in policy.cpus :
        /\ sugov_cpu[c].last_update = time
        /\ "DL" \notin sugov_cpu[c].flags
        /\ sugov_cpu[c].util = 200
        /\ sugov_cpu[j].last_update < time
        /\ time - sugov_cpu[j].last_update <= TICK_NSEC
        /\ "DL" \in sugov_cpu[j].flags
        /\ sugov_cpu[j].util = 200

-----------------------------------------------------------------------------
(* Properties of the iowait boost                                          *)

\* C14: a sample whose request flags include the I/O-wait flag leaves the
\* iowait boost of its CPU at the CPU's configured maximum (cpuinfo.max_freq
\* as set by sugov_start): sugov_set_iowait_boost yields it for the
\* selection step, and a sample that does not go on to the selection step
\* returns with it.
C14_BoostInjected ==
    [][\A x \in SampleInputsBoost, k \in ScalingCpus :
        ( /\ \/ sugov_update_shared(x[1], x[2], x[3], k)
             \/ sugov_update_single(x[1], x[2], x[3], k)
          /\ "IOWAIT" \in x[3] ) =>
            /\ sugov_set_iowait_boost(sugov_cpu[x[1]], time, x[3]).iowait_boost
                    = sugov_cpu[x[1]].iowait_boost_max
            /\ last'.op # "sample" =>
                    sugov_cpu'[x[1]].iowait_boost
                        = sugov_cpu'[x[1]].iowait_boost_max
      ]_vars

\* 2 to the power k
RECURSIVE Pow2(_)
Pow2(k) == IF k = 0 THEN 1 ELSE 2 * Pow2(k - 1)

\* the sugov_cpu c after k further samples without the I/O-wait flag, each
\* at the current instant, of utilisation u and going through the selection
\* step
RECURSIVE AfterSamples(_, _, _)
AfterSamples(c, k, u) ==
    IF k = 0 THEN c
    ELSE LET p == AfterSamples(c, k - 1, u)
             c1 == [sugov_set_iowait_boost(p, time, {})
                        EXCEPT !.last_update = time]
             gu == sugov_get_util(u)
         IN  sugov_iowait_boost(c1, gu.util, gu.max).cpu

\* C15: from a sample with the I/O-wait flag, which sets the boost of its
\* CPU to the maximum B, k consecutive samples of that CPU without the flag,
\* each within one tick of the one before and each going through the
\* selection step, leave the boost at floor(B / 2^k); and the selection step
\* substitutes (boost, boost_max) for (u, c) exactly when boost > 0 and
\* u * boost_max < c * boost.
C15_BoostDecay ==
    hooks_installed =>
        \A c \in policy.cpus, u \in Utils, k \in 1..MaxDecay :
            LET B == sugov_cpu[c].iowait_boost_max
                c0 == [sugov_set_iowait_boost(sugov_cpu[c], time, {"IOWAIT"})
                            EXCEPT !.last_update = time]
                p == AfterSamples(c0, k - 1, u)
                c1 == [sugov_set_iowait_boost(p, time, {})
                            EXCEPT !.last_update = time]
                gu == sugov_get_util(u)
                io == sugov_iowait_boost(c1, gu.util, gu.max)
            IN  /\ io.cpu.iowait_boost = B \div Pow2(k)
                /\ (io.util = c1.iowait_boost /\ io.max = c1.iowait_boost_max)
                        <=> ( /\ c1.iowait_boost > 0
                              /\ gu.util * c1.iowait_boost_max
                                    < gu.max * c1.iowait_boost )

-----------------------------------------------------------------------------
(* Properties of the rate-limit tunables                                   *)

\* a step that completes a write of the up or down rate limit
RateLimitWrite ==
    \/ \E v \in RateLimitUs : up_rate_limit_us_store(v)
    \/ \E v \in RateLimitUs : down_rate_limit_us_store(v)
    \/ \E a, b \in RateLimitMs : sugov_update_rate_limit_us(a, b)

\* C17: after every completed write of the up or down rate limit, through
\* the sysfs stores or sugov_update_rate_limit_us, the sugov_policy attached
\* to the tunables has up and down delays, both >= 0, equal to the
\* tunables' up and down values in nanoseconds, and its minimum delay is the
\* smaller of the two.
C17_RateLimitPropagated ==
    [][RateLimitWrite =>
        /\ sg_policy'.up_rate_delay_ns >= 0
        /\ sg_policy'.down_rate_delay_ns >= 0
        /\ sg_policy'.up_rate_delay_ns
                = tunables'.up_rate_limit_us * NSEC_PER_USEC
        /\ sg_policy'.down_rate_delay_ns
                = tunables'.down_rate_limit_us * NSEC_PER_USEC
        /\ sg_policy'.min_rate_limit_ns
                = Min(sg_policy'.up_rate_delay_ns,
                      sg_policy'.down_rate_delay_ns)
      ]_vars

-----------------------------------------------------------------------------
(* Properties of the locking                                               *)

\* C18: every write of a field of the sugov_policy (next_freq,
\* last_freq_update_time, cached_raw_freq, work_in_progress,
\* need_freq_update, the delays) by the single-CPU update path, the shared
\* update path, the worker or the limits handler is made while the writing
\* context holds the group's update_lock or, for a field that only the
\* worker touches, the group's work_lock.
C18_LockDiscipline ==
    [][( /\ sg_policy' # sg_policy
         /\ last'.op \in {"sample", "work_end", "limits_end"} ) =>
            \/ "update_lock" \in last'.locks
            \/ /\ last'.op = "work_end"
               /\ "work_lock" \in last'.locks
      ]_vars

-----------------------------------------------------------------------------
(* Properties of the slack timer                                           *)

\* C19: on every CPU_PM_ENTER_PREPARE notification of a CPU whose slack
\* handling is started, once the notifier has returned a timer armed with
\* the configured expiry threshold is pending if and only if the CPU's
\* last-known utilisation exceeds its minimum floor and the predicted sleep
\* length exceeds the expiry threshold (expired_time, in ms), and otherwise
\* no timer is pending; and after the CPU_PM_EXIT_POST notification no timer
\* is pending.
C19_SlackTimerArming ==
    [][\A c \in CPUS, b \in BoostVals, sl \in SleepLengths :
        /\ ( /\ sugov_pm_notifier(c, "CPU_PM_ENTER_PREPARE", b, sl)
             /\ sugov_exynos[c].started ) =>
                /\ sugov_exynos'[c].timer <=>
                        ( /\ sugov_cpu[c].util > sugov_exynos[c].min
                          /\ sl > sugov_exynos[c].expired_time * NSEC_PER_MSEC )
                /\ sugov_exynos'[c].timer =>
                        sugov_exynos'[c].expires = sugov_exynos[c].expired_time
        /\ ( /\ sugov_pm_notifier(c, "CPU_PM_EXIT_POST", b, sl)
             /\ sugov_exynos[c].started ) =>
                ~sugov_exynos'[c].timer
      ]_vars

-----------------------------------------------------------------------------
(* Properties of the cached raw frequency                                  *)

\* C20: after the hysteresis gate has blocked a commit and reset
\* cached_raw_freq, the next sample of the group that reaches get_next_freq
\* resolves its candidate afresh: it does not take the cache-hit shortcut
\* that returns the committed target, whatever its utilisation, 0 included.
C20_FreshAfterBlocked ==
    [][( /\ last.op = "sample"
         /\ last.outcome = "blocked"
         /\ SampleStep
         /\ last'.op = "sample" ) =>
            ~last'.hit
      ]_vars

-----------------------------------------------------------------------------
(* Properties of the committed target                                      *)

\* C21: the deferred worker makes its hardware-set call with exactly the
\* target written by the commit that signalled it: a deferred commit leaves
\* its target in next_freq, no step of a sample of any member CPU, of the
\* limits handler or of anything else changes next_freq while the deferred
\* apply is outstanding (signalled, queued, or in the worker's call), and
\* the worker enters its call with next_freq.
C21_WorkerAppliesCommitted ==
    [][/\ (last'.op = "sample" /\ last'.outcome = "deferred") =>
            sg_policy'.next_freq = last'.target
       /\ Outstanding >= 1 =>
            sg_policy'.next_freq = sg_policy.next_freq
       /\ last'.op = "work" =>
            /\ Outstanding = 1
            /\ sg_policy.work_in_progress
            /\ last'.arg = sg_policy.next_freq
      ]_vars

\* the worker is in its call, entered with the committed target, after a
\* limits change and a later sample arrived while the apply was outstanding
C21_Witness ==
    /\ last.op = "work"
    /\ last.arg = sg_policy.next_freq
    /\ sg_policy.next_freq # UINT_MAX
    /\ sg_policy.need_freq_update
    /\ \E c \in policy.cpus :
            sugov_cpu[c].last_update > sg_policy.last_freq_update_time

\* C22: whenever get_next_freq takes the cache-hit shortcut, the committed
\* target it returns is the frequency that resolving the candidate (equal
\* to cached_raw_freq on a hit) against the table within the policy's
\* current limits gives.
C22_CacheCoherent ==
    [][(last'.op = "sample" /\ last'.hit) =>
            /\ last'.target = sg_policy.next_freq
            /\ sg_policy.next_freq =
                   cpufreq_driver_resolve_freq(policy,
                                               sg_policy.cached_raw_freq)
      ]_vars

\* C23: no blocking hardware-set call, whether the deferred worker's or the
\* minimum-floor callback's, is entered with UINT_MAX, the value next_freq
\* holds after start and after a forced recompute.
C23_NoSentinelCall ==
    (last.op = "work" \/ (last.op = "qos" /\ last.outcome = "NOTIFY_OK")) =>
        last.arg # UINT_MAX

\* C24: a sample that passes the should-update gate and is not blocked by
\* the up/down rate limit leaves a real frequency in next_freq, not
\* UINT_MAX, in single-CPU mode too.
C24_ProcessedSampleCommits ==
    (last.op = "sample" /\ last.outcome # "blocked") =>
        sg_policy.next_freq # UINT_MAX

-----------------------------------------------------------------------------
(* Properties of the slack timer across sugov_stop                         *)

\* C25: once sugov_stop_slack has returned for the CPUs of a domain, no
\* slack timer is pending on any of them until the governor is started
\* again, however the stop interleaves with a CPU PM notification running
\* on such a CPU.
C25_SlackQuiescentAfterStop ==
    gov \in {"stop_irq", "stop_work", "stopped"} =>
        \A c \in policy.cpus : ~sugov_exynos[c].timer

====
